---- MODULE Spec2Model ----
(***************************************************************************)
(* Model of valhalla's packed node record (baldr/nodeinfo.cc) and of the   *)
(* tile header builder (mjolnir/graphtileheaderbuilder.cc).                *)
(*                                                                         *)
(* Fixed-width machine words are modelled as the set of their set bit      *)
(* positions (bit 0 is the least significant one), so that &, << and >>    *)
(* are computed bit by bit and words wider than TLC's integers (the 64-bit *)
(* headings_) keep their width.                                            *)
(***************************************************************************)
EXTENDS Integers, Sequences, FiniteSets, TLC

VARIABLES
  \* NodeInfo fields
  type_, access_, local_driveability_, headings_, stop_,
  \* the accessor call in progress: its name, arguments, returned value and
  \* the ContinuityLookup indices it read
  call, args, result, lookup,
  \* GraphTileHeader fields
  internal_version_, date_created_, version_, nodecount_, directededgecount_,
  edgeinfo_offset_, textlist_offset_, exitlist_offset_, admin_offset_,
  merlist_offset_, timedres_offset_, transit_offset_,
  \* the arguments the builder's setters were called with: passed[f] is <<>>
  \* before the first call of setter f and <<v>> after a call with v;
  \* version_log holds the arguments of the last two set_version calls
  passed, version_log

nodevars == <<type_, access_, local_driveability_, headings_, stop_>>
callvars == <<call, args, result, lookup>>
hdrvars == <<internal_version_, date_created_, version_, nodecount_,
             directededgecount_, edgeinfo_offset_, textlist_offset_,
             exitlist_offset_, admin_offset_, merlist_offset_,
             timedres_offset_, transit_offset_>>
logvars == <<passed, version_log>>
vars == <<nodevars, callvars, hdrvars, logvars>>

----------------------------------------------------------------------------
(* Machine words *)

\* the word holding the non-negative number n
BitsOf(n) == {i \in 0..30 : (n \div (2^i)) % 2 = 1}

RECURSIVE ValueOf(_)
\* the number a word holds (words below 2^31 only)
ValueOf(w) ==
  IF w = {} THEN 0
  ELSE LET i == CHOOSE j \in w : TRUE IN (2^i) + ValueOf(w \ {i})

\* a & b
BitAnd(a, b) == a \cap b
\* (a << n) in a word of the given width
Shl(a, n, width) == {i + n : i \in a} \cap (0..(width - 1))
\* (a >> n), a unsigned
Shr(a, n) == {i - n : i \in {j \in a : j >= n}}

\* std::round of the non-negative rational num/den (halves away from zero).
\* heading rounds a float product; no byte times 360/255 lies within 0.02 of a
\* half, so float rounding error never changes the result.
Round(num, den) == (2 * num + den) \div (2 * den)

----------------------------------------------------------------------------
(* Constants of graphconstants.h and nodeinfo.h *)

kMaxLocalEdgeIndex == 7

\* kHeadingExpandFactor = kHeadingExpandNum / kHeadingExpandDen
kHeadingExpandNum == 360
kHeadingExpandDen == 255

kAutoAccess == 1
kPedestrianAccess == 2
kBicycleAccess == 4
kTruckAccess == 8
kEmergencyAccess == 16
kTaxiAccess == 32
kBusAccess == 64
kHOVAccess == 128

NodeType == {"kStreetIntersection", "kGate", "kBollard", "kTollBooth",
             "kRailStop", "kBusStop", "kMultiUseTransitStop", "kBikeShare",
             "kParking"}

\* widths of the packed fields
kStopBits == 32
kLocalDriveabilityBits == 32
kHeadingsBits == 64

ContinuityLookup_WrongRow == [i \in 0..6 |-> IF i = 2 THEN 12 ELSE <<0, 7, 13, 18, 22, 25, 27>>[i + 1]]

ContinuityLookup == [i \in 0..6 |-> <<0, 7, 13, 18, 22, 25, 27>>[i + 1]]

----------------------------------------------------------------------------
(* NodeInfo accessors *)

NodeInfo_ctor ==
  /\ type_ = "kStreetIntersection"
  /\ access_ = 0
  /\ local_driveability_ = {}
  /\ headings_ = {}
  /\ stop_ = {}

NoCall ==
  /\ call = "none"
  /\ args = <<>>
  /\ result = FALSE
  /\ lookup = {}

local_driveability_WideMask(field, localidx) ==
  LET s == localidx * 2
  IN  ValueOf(Shr(BitAnd(field, Shl(BitsOf(7), s, kLocalDriveabilityBits)), s))

local_driveability(field, localidx) ==
  LET s == localidx * 2
  IN  ValueOf(Shr(BitAnd(field, Shl(BitsOf(3), s, kLocalDriveabilityBits)), s))

is_transit(nt) ==
  nt = "kRailStop" \/ nt = "kBusStop" \/ nt = "kMultiUseTransitStop"

stop_index(stop) == [ok |-> TRUE, value |-> stop]

\* value: the returned bool; lookup: the ContinuityLookup indices read
name_consistency_NoMinusOne(stop, from, to) ==
  IF from = to THEN [value |-> TRUE, lookup |-> {}]
  ELSE IF from < to
       THEN (IF to > kMaxLocalEdgeIndex THEN [value |-> FALSE, lookup |-> {}]
             ELSE [value |-> BitAnd(stop, Shl(BitsOf(1), ContinuityLookup[from] + (to - from), kStopBits)) # {},
                   lookup |-> {from}])
       ELSE (IF from > kMaxLocalEdgeIndex THEN [value |-> FALSE, lookup |-> {}]
             ELSE [value |-> BitAnd(stop, Shl(BitsOf(1), ContinuityLookup[to] + (from - to), kStopBits)) # {},
                   lookup |-> {to}])

name_consistency(stop, from, to) ==
  IF from = to THEN [value |-> TRUE, lookup |-> {}]
  ELSE IF from < to
       THEN (IF to > kMaxLocalEdgeIndex THEN [value |-> FALSE, lookup |-> {}]
             ELSE [value |-> BitAnd(stop, Shl(BitsOf(1), ContinuityLookup[from] + (to - from - 1), kStopBits)) # {},
                   lookup |-> {from}])
       ELSE (IF from > kMaxLocalEdgeIndex THEN [value |-> FALSE, lookup |-> {}]
             ELSE [value |-> BitAnd(stop, Shl(BitsOf(1), ContinuityLookup[to] + (from - to - 1), kStopBits)) # {},
                   lookup |-> {to}])

heading_Truncating(headings, localidx) ==
  LET shift == localidx * 8
      slice == ValueOf(Shr(BitAnd(headings, Shl(BitsOf(255), shift, kHeadingsBits)), shift))
  IN  (slice * kHeadingExpandNum) \div kHeadingExpandDen

heading(headings, localidx) ==
  LET shift == localidx * 8
      slice == ValueOf(Shr(BitAnd(headings, Shl(BitsOf(255), shift, kHeadingsBits)), shift))
  IN  Round(slice * kHeadingExpandNum, kHeadingExpandDen)

\* access && flag
LogicalAnd(a, b) == (a # 0) /\ (b # 0)

access_json(access) ==
  [bicycle    |-> LogicalAnd(access, kBicycleAccess),
   bus        |-> LogicalAnd(access, kBusAccess),
   car        |-> LogicalAnd(access, kAutoAccess),
   emergency  |-> LogicalAnd(access, kEmergencyAccess),
   HOV        |-> LogicalAnd(access, kHOVAccess),
   pedestrian |-> LogicalAnd(access, kPedestrianAccess),
   taxi       |-> LogicalAnd(access, kTaxiAccess),
   truck      |-> LogicalAnd(access, kTruckAccess)]

\* The fields of the json map that come from the modelled part of the record;
\* stop_index is emplaced for transit nodes only.
json ==
  LET m == [access |-> access_json(access_), type |-> type_]
  IN  IF is_transit(type_)
      THEN [k \in {"access", "type", "stop_index"} |->
              IF k = "stop_index" THEN stop_ ELSE m[k]]
      ELSE m

----------------------------------------------------------------------------
(* Accessor calls on a built, read-only node record *)

Call_local_driveability(localidx) ==
  /\ call = "none"
  /\ call' = "local_driveability"
  /\ args' = <<localidx>>
  /\ result' = local_driveability(local_driveability_, localidx)
  /\ UNCHANGED <<lookup, nodevars, hdrvars, logvars>>

Call_is_transit ==
  /\ call = "none"
  /\ call' = "is_transit"
  /\ args' = <<>>
  /\ result' = is_transit(type_)
  /\ UNCHANGED <<lookup, nodevars, hdrvars, logvars>>

Call_stop_index ==
  /\ call = "none"
  /\ call' = "stop_index"
  /\ args' = <<>>
  /\ result' = stop_index(stop_)
  /\ UNCHANGED <<lookup, nodevars, hdrvars, logvars>>

Call_name_consistency(from, to) ==
  /\ call = "none"
  /\ call' = "name_consistency"
  /\ args' = <<from, to>>
  /\ result' = name_consistency(stop_, from, to).value
  /\ lookup' = name_consistency(stop_, from, to).lookup
  /\ UNCHANGED <<nodevars, hdrvars, logvars>>

Call_heading(localidx) ==
  /\ call = "none"
  /\ call' = "heading"
  /\ args' = <<localidx>>
  /\ result' = heading(headings_, localidx)
  /\ UNCHANGED <<lookup, nodevars, hdrvars, logvars>>

Call_json ==
  /\ call = "none"
  /\ call' = "json"
  /\ args' = <<>>
  /\ result' = json
  /\ UNCHANGED <<lookup, nodevars, hdrvars, logvars>>

----------------------------------------------------------------------------
(* GraphTileHeaderBuilder *)

kMaxVersionSize == 16

\* GraphTileHeaderBuilder() : GraphTileHeader(): an all-zero header
GraphTileHeaderBuilder_ctor ==
  /\ internal_version_ = 0
  /\ date_created_ = 0
  /\ version_ = [i \in 0..(kMaxVersionSize - 1) |-> 0]
  /\ nodecount_ = 0
  /\ directededgecount_ = 0
  /\ edgeinfo_offset_ = 0
  /\ textlist_offset_ = 0
  /\ exitlist_offset_ = 0
  /\ admin_offset_ = 0
  /\ merlist_offset_ = 0
  /\ timedres_offset_ = 0
  /\ transit_offset_ = 0

NothingPassed ==
  /\ passed = [f \in {"internal_version", "date_created", "nodecount",
                      "directededgecount", "edgeinfo_offset", "textlist_offset",
                      "exitlist_offset", "admin_offset", "merlist_offset",
                      "timedres_offset", "transit_offset"} |-> <<>>]
  /\ version_log = <<>>

\* the setters called so far
Touched ==
  {f \in DOMAIN passed : passed[f] # <<>>}
    \cup (IF version_log # <<>> THEN {"version"} ELSE {})

\* std::string::c_str(): the characters followed by the terminator
c_str(str) == Append(str, 0)

\* strlen of a terminated character sequence
strlen(cs) == (CHOOSE i \in 1..Len(cs) : cs[i] = 0 /\ \A j \in 1..(i - 1) : cs[j] # 0) - 1

\* a copy that stops after the terminator and leaves the rest of dest alone
strncpy_NoPad(dest, src, n) ==
  [i \in DOMAIN dest |->
     IF i < n /\ i < strlen(src) THEN src[i + 1]
     ELSE IF i < n /\ i = strlen(src) THEN 0
     ELSE dest[i]]

\* strncpy(dest, src, n): the first n characters of src, padded with
\* terminators up to n when src is shorter
strncpy(dest, src, n) ==
  [i \in DOMAIN dest |->
     IF i < n THEN (IF i < strlen(src) THEN src[i + 1] ELSE 0)
     ELSE dest[i]]

\* GraphTileHeader::version(): the buffer read as a terminator-ended string
\* (the whole buffer when it holds no terminator)
read_version ==
  LET ends == {i \in DOMAIN version_ : version_[i] = 0}
      n == IF ends = {} THEN kMaxVersionSize
           ELSE CHOOSE i \in ends : \A j \in ends : i <= j
  IN  [i \in 1..n |-> version_[i - 1]]

\* the cap on the number of different setters one run calls
MaxTouched == 3

CanTouch(f) == f \in Touched \/ Cardinality(Touched) < MaxTouched

LogVersion(version) ==
  IF Len(version_log) = 2 THEN <<version_log[2], version>>
  ELSE Append(version_log, version)

set_version(version) ==
  /\ CanTouch("version")
  /\ version_' = [strncpy(version_, c_str(version), kMaxVersionSize)
                    EXCEPT ![kMaxVersionSize - 1] = 0]
  /\ version_log' = LogVersion(version)
  /\ UNCHANGED <<internal_version_, date_created_, nodecount_,
                 directededgecount_, edgeinfo_offset_, textlist_offset_,
                 exitlist_offset_, admin_offset_, merlist_offset_,
                 timedres_offset_, transit_offset_>>
  /\ UNCHANGED <<passed, nodevars, callvars>>

set_internal_version(version) ==
  /\ CanTouch("internal_version")
  /\ internal_version_' = version
  /\ passed' = [passed EXCEPT !["internal_version"] = <<version>>]
  /\ UNCHANGED <<date_created_, version_, nodecount_, directededgecount_,
                 edgeinfo_offset_, textlist_offset_, exitlist_offset_,
                 admin_offset_, merlist_offset_, timedres_offset_,
                 transit_offset_>>
  /\ UNCHANGED <<version_log, nodevars, callvars>>

set_date_created(date) ==
  /\ CanTouch("date_created")
  /\ date_created_' = date
  /\ passed' = [passed EXCEPT !["date_created"] = <<date>>]
  /\ UNCHANGED <<internal_version_, version_, nodecount_, directededgecount_,
                 edgeinfo_offset_, textlist_offset_, exitlist_offset_,
                 admin_offset_, merlist_offset_, timedres_offset_,
                 transit_offset_>>
  /\ UNCHANGED <<version_log, nodevars, callvars>>

set_nodecount(count) ==
  /\ CanTouch("nodecount")
  /\ nodecount_' = count
  /\ passed' = [passed EXCEPT !["nodecount"] = <<count>>]
  /\ UNCHANGED <<internal_version_, date_created_, version_,
                 directededgecount_, edgeinfo_offset_, textlist_offset_,
                 exitlist_offset_, admin_offset_, merlist_offset_,
                 timedres_offset_, transit_offset_>>
  /\ UNCHANGED <<version_log, nodevars, callvars>>

set_directededgecount(count) ==
  /\ CanTouch("directededgecount")
  /\ directededgecount_' = count
  /\ passed' = [passed EXCEPT !["directededgecount"] = <<count>>]
  /\ UNCHANGED <<internal_version_, date_created_, version_, nodecount_,
                 edgeinfo_offset_, textlist_offset_, exitlist_offset_,
                 admin_offset_, merlist_offset_, timedres_offset_,
                 transit_offset_>>
  /\ UNCHANGED <<version_log, nodevars, callvars>>

set_edgeinfo_offset(offset) ==
  /\ CanTouch("edgeinfo_offset")
  /\ edgeinfo_offset_' = offset
  /\ passed' = [passed EXCEPT !["edgeinfo_offset"] = <<offset>>]
  /\ UNCHANGED <<internal_version_, date_created_, version_, nodecount_,
                 directededgecount_, textlist_offset_, exitlist_offset_,
                 admin_offset_, merlist_offset_, timedres_offset_,
                 transit_offset_>>
  /\ UNCHANGED <<version_log, nodevars, callvars>>

set_textlist_offset(offset) ==
  /\ CanTouch("textlist_offset")
  /\ textlist_offset_' = offset
  /\ passed' = [passed EXCEPT !["textlist_offset"] = <<offset>>]
  /\ UNCHANGED <<internal_version_, date_created_, version_, nodecount_,
                 directededgecount_, edgeinfo_offset_, exitlist_offset_,
                 admin_offset_, merlist_offset_, timedres_offset_,
                 transit_offset_>>
  /\ UNCHANGED <<version_log, nodevars, callvars>>

set_exitlist_offset(offset) ==
  /\ CanTouch("exitlist_offset")
  /\ exitlist_offset_' = offset
  /\ passed' = [passed EXCEPT !["exitlist_offset"] = <<offset>>]
  /\ UNCHANGED <<internal_version_, date_created_, version_, nodecount_,
                 directededgecount_, edgeinfo_offset_, textlist_offset_,
                 admin_offset_, merlist_offset_, timedres_offset_,
                 transit_offset_>>
  /\ UNCHANGED <<version_log, nodevars, callvars>>

set_admin_offset(offset) ==
  /\ CanTouch("admin_offset")
  /\ admin_offset_' = offset
  /\ passed' = [passed EXCEPT !["admin_offset"] = <<offset>>]
  /\ UNCHANGED <<internal_version_, date_created_, version_, nodecount_,
                 directededgecount_, edgeinfo_offset_, textlist_offset_,
                 exitlist_offset_, merlist_offset_, timedres_offset_,
                 transit_offset_>>
  /\ UNCHANGED <<version_log, nodevars, callvars>>

set_merlist_offset(offset) ==
  /\ CanTouch("merlist_offset")
  /\ merlist_offset_' = offset
  /\ passed' = [passed EXCEPT !["merlist_offset"] = <<offset>>]
  /\ UNCHANGED <<internal_version_, date_created_, version_, nodecount_,
                 directededgecount_, edgeinfo_offset_, textlist_offset_,
                 exitlist_offset_, admin_offset_, timedres_offset_,
                 transit_offset_>>
  /\ UNCHANGED <<version_log, nodevars, callvars>>

set_timedres_offset_WritesTransit(offset) ==
  /\ CanTouch("timedres_offset")
  /\ transit_offset_' = offset
  /\ passed' = [passed EXCEPT !["timedres_offset"] = <<offset>>]
  /\ UNCHANGED <<internal_version_, date_created_, version_, nodecount_,
                 directededgecount_, edgeinfo_offset_, textlist_offset_,
                 exitlist_offset_, admin_offset_, merlist_offset_,
                 timedres_offset_>>
  /\ UNCHANGED <<version_log, nodevars, callvars>>

set_timedres_offset(offset) ==
  /\ CanTouch("timedres_offset")
  /\ timedres_offset_' = offset
  /\ passed' = [passed EXCEPT !["timedres_offset"] = <<offset>>]
  /\ UNCHANGED <<internal_version_, date_created_, version_, nodecount_,
                 directededgecount_, edgeinfo_offset_, textlist_offset_,
                 exitlist_offset_, admin_offset_, merlist_offset_,
                 transit_offset_>>
  /\ UNCHANGED <<version_log, nodevars, callvars>>

set_transit_offset(offset) ==
  /\ CanTouch("transit_offset")
  /\ transit_offset_' = offset
  /\ passed' = [passed EXCEPT !["transit_offset"] = <<offset>>]
  /\ UNCHANGED <<internal_version_, date_created_, version_, nodecount_,
                 directededgecount_, edgeinfo_offset_, textlist_offset_,
                 exitlist_offset_, admin_offset_, merlist_offset_,
                 timedres_offset_>>
  /\ UNCHANGED <<version_log, nodevars, callvars>>

----------------------------------------------------------------------------
(* Bounds of the model and the inputs drawn within them *)

\* sampled words have at most MaxBits bits set, or at most MaxBits bits clear
MaxBits == 1
\* local edge indices passed to name_consistency: 0..MaxEdgeIdx
MaxEdgeIdx == 15
\* access masks: 0..MaxAccess (the eight mode bits and one bit above them)
MaxAccess == 511
\* version strings have 0..MaxVersionLen characters
MaxVersionLen == 17
\* version strings follow one of the character patterns 0..MaxPattern
MaxPattern == 1
\* numeric setter arguments: 0..MaxArg
MaxArg == 1

RECURSIVE Sparse(_, _)
\* the words of the given width with at most n bits set
Sparse(width, n) ==
  IF n = 0 THEN {{}}
  ELSE LET s == Sparse(width, n - 1)
       IN  s \cup {w \cup {i} : w \in s, i \in 0..(width - 1)}

SampleWords(width) ==
  Sparse(width, MaxBits)
    \cup {(0..(width - 1)) \ w : w \in Sparse(width, MaxBits)}

\* the 64-bit headings_ word holding byte b[i] in slot i
HeadingsWord(b) == UNION {Shl(BitsOf(b[i]), 8 * i, kHeadingsBits) : i \in 0..7}

\* the local_driveability_ word holding the 2-bit value g[i] in group i
DriveabilityWord(g) ==
  UNION {Shl(BitsOf(g[i]), 2 * i, kLocalDriveabilityBits) :
           i \in 0..((kLocalDriveabilityBits \div 2) - 1)}

\* a version tag of len non-NUL text characters
VersionText(len, pat) == [i \in 1..len |-> 97 + ((i * (pat + 1) + pat) % 26)]

----------------------------------------------------------------------------
(* Specifications *)

\* name_consistency on a record with a sampled name-consistency mask
Init_NC ==
  /\ type_ = "kStreetIntersection"
  /\ access_ = 0
  /\ local_driveability_ = {}
  /\ headings_ = {}
  /\ stop_ \in SampleWords(kStopBits)
  /\ NoCall
  /\ GraphTileHeaderBuilder_ctor
  /\ NothingPassed

Next_NC == \E from \in 0..MaxEdgeIdx, to \in 0..MaxEdgeIdx : Call_name_consistency(from, to)

SpecNC == Init_NC /\ [][Next_NC]_vars

\* stop_index, is_transit and json on records of every node type
Init_Stop ==
  /\ type_ \in NodeType
  /\ access_ = 0
  /\ local_driveability_ = {}
  /\ headings_ = {}
  /\ stop_ \in SampleWords(kStopBits)
  /\ NoCall
  /\ GraphTileHeaderBuilder_ctor
  /\ NothingPassed

Next_Stop ==
  \/ Call_is_transit
  \/ Call_stop_index
  \/ Call_json

SpecStop == Init_Stop /\ [][Next_Stop]_vars

\* heading on records whose headings_ holds any byte in one slot and a
\* filler byte in the other seven
Init_Heading ==
  /\ type_ = "kStreetIntersection"
  /\ access_ = 0
  /\ local_driveability_ = {}
  /\ \E k \in 0..7, b \in 0..255, f \in {0, 170, 255} :
       headings_ = HeadingsWord([i \in 0..7 |-> IF i = k THEN b ELSE f])
  /\ stop_ = {}
  /\ NoCall
  /\ GraphTileHeaderBuilder_ctor
  /\ NothingPassed

Next_Heading == \E localidx \in 0..kMaxLocalEdgeIndex : Call_heading(localidx)

SpecHeading == Init_Heading /\ [][Next_Heading]_vars

\* local_driveability on records whose field holds any two values in two
\* groups and a filler value in the other groups
Init_Drive ==
  /\ type_ = "kStreetIntersection"
  /\ access_ = 0
  /\ \E a \in 0..15, b \in 0..15, va \in 0..3, vb \in 0..3, f \in {0, 3} :
       local_driveability_ =
         DriveabilityWord([i \in 0..15 |-> IF i = a THEN va ELSE IF i = b THEN vb ELSE f])
  /\ headings_ = {}
  /\ stop_ = {}
  /\ NoCall
  /\ GraphTileHeaderBuilder_ctor
  /\ NothingPassed

Next_Drive ==
  \E localidx \in 0..((kLocalDriveabilityBits \div 2) - 1) : Call_local_driveability(localidx)

SpecDrive == Init_Drive /\ [][Next_Drive]_vars

\* json on records with every access mask
Init_Access ==
  /\ type_ = "kStreetIntersection"
  /\ access_ \in 0..MaxAccess
  /\ local_driveability_ = {}
  /\ headings_ = {}
  /\ stop_ = {}
  /\ NoCall
  /\ GraphTileHeaderBuilder_ctor
  /\ NothingPassed

Next_Access == Call_json

SpecAccess == Init_Access /\ [][Next_Access]_vars

Init_Builder ==
  /\ NodeInfo_ctor
  /\ NoCall
  /\ GraphTileHeaderBuilder_ctor
  /\ NothingPassed

\* sequences of set_version calls
Next_Version ==
  \E len \in 0..MaxVersionLen, pat \in 0..MaxPattern : set_version(VersionText(len, pat))

SpecVersion == Init_Builder /\ [][Next_Version]_vars

\* sequences of calls of all twelve setters
Next_Builder ==
  \/ \E len \in {1, MaxVersionLen} : set_version(VersionText(len, 0))
  \/ \E v \in 0..MaxArg :
       \/ set_internal_version(v)
       \/ set_date_created(v)
       \/ set_nodecount(v)
       \/ set_directededgecount(v)
       \/ set_edgeinfo_offset(v)
       \/ set_textlist_offset(v)
       \/ set_exitlist_offset(v)
       \/ set_admin_offset(v)
       \/ set_merlist_offset(v)
       \/ set_timedres_offset(v)
       \/ set_transit_offset(v)

SpecBuilder == Init_Builder /\ [][Next_Builder]_vars

----------------------------------------------------------------------------
(* Reference definitions used by the properties below *)

Min(a, b) == IF a < b THEN a ELSE b
Max(a, b) == IF a < b THEN b ELSE a

\* the lookup table as the contract states it
RefLookup == <<0, 7, 13, 18, 22, 25, 27>>

Ref_name_consistency(mask, from, to) ==
  IF from = to THEN TRUE
  ELSE LET low == Min(from, to)
           high == Max(from, to)
       IN  IF high > 7 THEN FALSE
           ELSE (RefLookup[low + 1] + (high - low - 1)) \in mask

\* the rank of the pair (i, j), i < j, among the pairs of 0..7 in
\* lexicographic order
LexRank(i, j) ==
  Cardinality({p \in (0..7) \X (0..7) :
                 p[1] < p[2] /\ (p[1] < i \/ (p[1] = i /\ p[2] < j))})

\* the 8-bit slice of h at bit offset 8 * idx, read bit by bit
RefSlice(h, idx) == ValueOf({j \in 0..7 : (8 * idx + j) \in h})

\* round(b * 360 / 255)
RefDequantize(b) == (2 * b * 360 + 255) \div 510

\* the 2-bit group of f at bit offset 2 * a, read bit by bit
RefGroup(f, a) ==
  (IF (2 * a) \in f THEN 1 ELSE 0) + (IF (2 * a + 1) \in f THEN 2 ELSE 0)

\* f with the 2-bit group of index b replaced by v
WithGroup(f, b, v) == (f \ {2 * b, 2 * b + 1}) \cup {2 * b + j : j \in BitsOf(v)}

\* (mask & flag) != 0 for a single-bit flag
FlagSet(mask, flag) == (mask \div flag) % 2 = 1

Truncate(str, n) == SubSeq(str, 1, Min(Len(str), n))

FieldValue(f) ==
  CASE f = "internal_version" -> internal_version_
    [] f = "date_created" -> date_created_
    [] f = "nodecount" -> nodecount_
    [] f = "directededgecount" -> directededgecount_
    [] f = "edgeinfo_offset" -> edgeinfo_offset_
    [] f = "textlist_offset" -> textlist_offset_
    [] f = "exitlist_offset" -> exitlist_offset_
    [] f = "admin_offset" -> admin_offset_
    [] f = "merlist_offset" -> merlist_offset_
    [] f = "timedres_offset" -> timedres_offset_
    [] f = "transit_offset" -> transit_offset_

SectionOrder == <<"edgeinfo_offset", "textlist_offset", "exitlist_offset",
                  "admin_offset", "merlist_offset", "timedres_offset",
                  "transit_offset">>

----------------------------------------------------------------------------
(* Properties *)

\* C1: name_consistency(from, to) returns the reference result for every pair
\* of local edge indices and every sampled mask (true on the diagonal, false
\* when the higher index exceeds 7, else bit RefLookup[low] + (high-low-1)),
\* and reads ContinuityLookup only at indices 0..6.
ThmC1 ==
  call = "name_consistency" =>
    /\ result = Ref_name_consistency(stop_, args[1], args[2])
    /\ lookup \subseteq 0..6

WitC1 ==
  /\ call = "name_consistency"
  /\ args[1] > args[2]
  /\ args[1] <= 7
  /\ result = TRUE
  /\ lookup = {args[2]}
  /\ Cardinality(stop_) = 1

\* C2: with exactly one bit k set in the mask, name_consistency is true for
\* the two orders of the k-th pair i < j <= 7 (in lexicographic order) and
\* false for every other pair of distinct indices; bit 15 is the pair (2, 5).
ThmC2 ==
  (call = "name_consistency" /\ Cardinality(stop_) = 1 /\ args[1] # args[2]) =>
    LET low == Min(args[1], args[2])
        high == Max(args[1], args[2])
    IN  /\ result <=> (high <= 7 /\ stop_ = {LexRank(low, high)})
        /\ stop_ = {15} => (result <=> {args[1], args[2]} = {2, 5})

WitC2 ==
  /\ call = "name_consistency"
  /\ stop_ = {15}
  /\ args = <<5, 2>>
  /\ result = TRUE

\* C3: after any sequence of set_version calls the tag read back is the last
\* argument cut to kMaxVersionSize-1 characters, and every buffer slot after
\* it holds the terminator (nothing of an earlier version survives).
ThmC3 ==
  version_log # <<>> =>
    LET expected == Truncate(version_log[Len(version_log)], kMaxVersionSize - 1)
    IN  /\ read_version = expected
        /\ \A i \in Len(expected)..(kMaxVersionSize - 1) : version_[i] = 0

WitC3 ==
  /\ Len(version_log) = 2
  /\ Len(version_log[1]) \in 1..(kMaxVersionSize - 1)
  /\ Len(version_log[2]) > kMaxVersionSize
  /\ Len(read_version) = kMaxVersionSize - 1
  /\ read_version # version_log[2]

\* C4: no header holds two section offsets, both set by their setters, that
\* decrease in section order (a call that would produce one is rejected).
CexC4 ==
  \A i \in 1..7, j \in 1..7 :
    (i < j /\ passed[SectionOrder[i]] # <<>> /\ passed[SectionOrder[j]] # <<>>)
      => FieldValue(SectionOrder[i]) <= FieldValue(SectionOrder[j])

\* C5: in the access breakdown of json each per-mode boolean is true exactly
\* when that mode's flag bit is set in the access mask.
CexC5 ==
  call = "json" =>
    /\ result.access.bicycle <=> FlagSet(access_, kBicycleAccess)
    /\ result.access.bus <=> FlagSet(access_, kBusAccess)
    /\ result.access.car <=> FlagSet(access_, kAutoAccess)
    /\ result.access.emergency <=> FlagSet(access_, kEmergencyAccess)
    /\ result.access.HOV <=> FlagSet(access_, kHOVAccess)
    /\ result.access.pedestrian <=> FlagSet(access_, kPedestrianAccess)
    /\ result.access.taxi <=> FlagSet(access_, kTaxiAccess)
    /\ result.access.truck <=> FlagSet(access_, kTruckAccess)

\* C6: stop_index() on a node that is not a transit node yields an error or
\* absent result, never the stored bits.
CexC6 ==
  (call = "stop_index" /\ ~is_transit(type_)) => ~result.ok

\* C7: heading(idx) is round(b * 360/255) for the 8-bit slice b at bit offset
\* idx*8, whatever the other slices hold; a slot storing 128 decodes to 181.
ThmC7 ==
  call = "heading" =>
    LET b == RefSlice(headings_, args[1])
    IN  /\ result = RefDequantize(b)
        /\ b = 128 => result = 181

WitC7 ==
  /\ call = "heading"
  /\ RefSlice(headings_, args[1]) = 128
  /\ result = 181
  /\ \A i \in (0..7) \ {args[1]} : RefSlice(headings_, i) = 255

\* C8: every heading returned lies in [0, 360).
CexC8 ==
  call = "heading" => (0 <= result /\ result < 360)

\* C9: local_driveability(a) is the 2-bit group at bit offset 2*a, a value in
\* 0..3, and stays the same when the group of any other index b is changed.
ThmC9 ==
  call = "local_driveability" =>
    LET a == args[1]
    IN  /\ result = RefGroup(local_driveability_, a)
        /\ result \in 0..3
        /\ \A b \in (0..15) \ {a}, v \in 0..3 :
             local_driveability(WithGroup(local_driveability_, b, v), a) = result

WitC9 ==
  /\ call = "local_driveability"
  /\ args = <<4>>
  /\ result = 1
  /\ RefGroup(local_driveability_, 3) = 3
  /\ RefGroup(local_driveability_, 5) = 3

\* C10: after any sequence of setter calls every header field holds the
\* argument of the last call of its own setter, or its initial value when
\* that setter was never called.
ThmC10 ==
  /\ \A f \in DOMAIN passed :
       FieldValue(f) = (IF passed[f] = <<>> THEN 0 ELSE passed[f][1])
  /\ read_version = (IF version_log = <<>> THEN <<>>
                     ELSE Truncate(version_log[Len(version_log)], kMaxVersionSize - 1))

WitC10 ==
  /\ passed["timedres_offset"] = <<1>>
  /\ passed["transit_offset"] = <<0>>
  /\ version_log # <<>>
  /\ Cardinality(Touched) = 3

====
